---- MODULE Spec2Model ----
(***************************************************************************)
(* gh-label-sync (src/index.ts): the label plan builder, the dry-run       *)
(* serializer, the executor and the per-repository pipelines of            *)
(* processRepos, as a state machine.                                       *)
(*                                                                         *)
(* A string that the program cuts or concatenates (a repository            *)
(* identifier, an owner, a file name) is a sequence of characters; a label *)
(* name, which the program only compares, is a string.  A JavaScript Map   *)
(* is the sequence of its entries in insertion order; a JavaScript object  *)
(* is a function from its own enumerable keys.                             *)
(***************************************************************************)
EXTENDS Integers, Sequences, FiniteSets

VARIABLES
    desiredLabels,   \* config.desiredLabels
    mappings,        \* config.mappings, name -> aliases
    existingLabels,  \* the existingLabels argument of createSyncPlanForRepo
    plan,            \* the SyncPlan of the stand-alone build
    artifact,        \* what dump wrote for `plan`
    phase,           \* "input" | "built" | "dumped" | "named" | "matched" | "plan" | "pipeline"
    repos,           \* options._ : the repository identifiers
    dryRun,          \* options.dryRun
    pc,              \* "start" | "running" | "exited"
    retrieverCalls,  \* the (owner, repo) pairs the retriever was called with
    retrieval,       \* per repository: the retriever's promise
    repoPromise,     \* per repository: the promise pushed to repoPromises
    plans,           \* per repository: the plan its then-callback built
    requests,        \* per repository: the requests issued to octokit, in order
    actionPromise,   \* per repository: the promise updateGHLabels returned
    writes,          \* the writeFileSync calls made: file name, content, pipeline
    reported,        \* "none" | "success" | "failure"
    exitCode,        \* "none" | "-1" | "1"
    target,          \* the labelToMatch argument of findMatches
    generatedNames,  \* what generateCandidateNames returned for target.name
    matchResult,     \* what findMatches returned
    calls            \* the addLabelToCreate / addLabelToUpdate calls made on `plan`

configVars == <<desiredLabels, mappings>>
buildVars == <<existingLabels, plan, artifact>>
pipeVars == <<repos, dryRun, pc, retrieverCalls, retrieval, repoPromise, plans,
              requests, actionPromise, writes, reported, exitCode>>
callVars == <<target, generatedNames, matchResult, calls>>
vars == <<configVars, buildVars, phase, pipeVars, callVars>>

----------------------------------------------------------------------------
(* Bounds and input sets *)

MaxDesired == 2
MaxExisting == 2
MaxRepos == 2
MaxCalls == 3

Null == "<null>"

LabelNames == {"bug", "defect", "feature"}

\* The labels a configuration may ask for: one per name.
DesiredPool ==
    { [name |-> "bug", color |-> "d73a4a", description |-> Null],
      [name |-> "defect", color |-> "ffffff", description |-> "Broken"],
      [name |-> "feature", color |-> "a2eeef", description |-> "New feature"] }

\* The labels a repository may hold: a name with the colour and description
\* the configuration wants for it, or with others.
ExistingPool ==
    DesiredPool \cup
    { [name |-> "bug", color |-> "000000", description |-> "Something is broken"] }

\* The alias lists of a mapping.
AliasLists == { <<>>, <<"bug">>, <<"defect", "bug">> }

SeqsUpTo(S, n) == UNION { [1..k -> S] : k \in 0..n }

DistinctNames(labels) ==
    \A i, j \in 1..Len(labels) : labels[i].name = labels[j].name => i = j

----------------------------------------------------------------------------
(* SyncPlan *)

\* new Map<string, Label>()
EmptyMap == <<>>

MapHas(m, k) == \E i \in 1..Len(m) : m[i].key = k

\* A set that appends an entry even when the key is present.
MapSetAppend(m, k, v) == Append(m, [key |-> k, value |-> v])

\* Map.prototype.set: an existing key keeps its place and takes the value.
MapSet(m, k, v) ==
    IF MapHas(m, k)
    THEN [i \in 1..Len(m) |-> IF m[i].key = k THEN [key |-> k, value |-> v] ELSE m[i]]
    ELSE Append(m, [key |-> k, value |-> v])

MapGet(m, k) == (CHOOSE i \in 1..Len(m) : m[i].key = k)

\* new SyncPlan(owner, repository): the object's own properties.
NewSyncPlan(owner, repository) ==
    [ _labelsToCreate |-> <<>>,
      _labelsToUpdate |-> EmptyMap,
      owner |-> owner,
      repository |-> repository ]

\* Object.assign({}, label)
CopyLabel(label) ==
    [name |-> label.name, color |-> label.color, description |-> label.description]

addLabelToCreate(p, label) ==
    [p EXCEPT !._labelsToCreate = Append(@, CopyLabel(label))]

\* An update that keeps the first label recorded under a name.
addLabelToUpdateKeepFirst(p, existingLabel, update) ==
    IF MapHas(p._labelsToUpdate, existingLabel.name)
    THEN p
    ELSE [p EXCEPT !._labelsToUpdate = MapSet(@, existingLabel.name, update)]

addLabelToUpdate(p, existingLabel, update) ==
    [p EXCEPT !._labelsToUpdate = MapSet(@, existingLabel.name, update)]

labelsToCreate(p) == p._labelsToCreate

labelsToUpdate(p) == p._labelsToUpdate

----------------------------------------------------------------------------
(* Candidate names and matching *)

\* The aliases alone, without the name itself.
generateAliasesOnly(m, labelName) ==
    IF labelName \in DOMAIN m /\ Len(m[labelName]) # 0 THEN m[labelName] ELSE <<labelName>>

\* The aliases before the name: [...labelMappings, labelName].
generateAliasesFirst(m, labelName) ==
    IF labelName \in DOMAIN m /\ Len(m[labelName]) # 0
    THEN m[labelName] \o <<labelName>>
    ELSE <<labelName>>

\* MappingsCandidateNamesGenerator.generateCandidateNames.  The condition
\* `labelMappings?.length ?? 0 > 0` parses as `labelMappings?.length ?? (0 > 0)`.
generateCandidateNames(m, labelName) ==
    LET defined == labelName \in DOMAIN m
        cond == IF defined THEN Len(m[labelName]) # 0 ELSE 0 > 0
    IN  IF cond THEN <<labelName>> \o m[labelName] ELSE <<labelName>>

\* Array.prototype.find in the place of filter: the first match alone.
findFirstMatch(m, labelToMatch, labels) ==
    LET candidateNames == generateCandidateNames(m, labelToMatch.name)
        keep(label) == \E k \in 1..Len(candidateNames) : label.name = candidateNames[k]
        all == SelectSeq(labels, keep)
    IN  IF all = <<>> THEN <<>> ELSE <<all[1]>>

\* LabelNameMatcher.findMatches
findMatches(m, labelToMatch, labels) ==
    LET candidateNames == generateCandidateNames(m, labelToMatch.name)
        keep(label) == \E k \in 1..Len(candidateNames) : label.name = candidateNames[k]
    IN  SelectSeq(labels, keep)

----------------------------------------------------------------------------
(* Plan builder *)

\* planStep taking the last match where the code takes the first.
planStepLastMatch(m, sync, dl, existing) ==
    LET el == findMatches(m, dl, existing)
    IN  IF Len(el) > 0
        THEN addLabelToUpdate(sync, el[Len(el)], dl)
        ELSE addLabelToCreate(sync, dl)

\* One iteration of desiredLabels.forEach in createSyncPlanForRepo.
planStep(m, sync, dl, existing) ==
    LET el == findMatches(m, dl, existing)
    IN  IF Len(el) > 0
        THEN addLabelToUpdate(sync, el[1], dl)
        ELSE addLabelToCreate(sync, dl)

RECURSIVE planLoop(_, _, _, _, _)
planLoop(m, sync, desired, existing, i) ==
    IF i > Len(desired)
    THEN sync
    ELSE planLoop(m, planStep(m, sync, desired[i], existing), desired, existing, i + 1)

createSyncPlanForRepo(m, owner, repo, desired, existing) ==
    planLoop(m, NewSyncPlan(owner, repo), desired, existing, 1)

----------------------------------------------------------------------------
(* Dry-run serializer *)

\* The properties of a SyncPlan that hold a Map (value instanceof Map).
MapProperties == {"_labelsToUpdate"}

\* Object.fromEntries(value.entries())
fromEntries(m) ==
    [k \in { m[i].key : i \in 1..Len(m) } |-> m[MapGet(m, k)].value]

\* JSON.stringify(value) with no replacer: a Map has no enumerable property
\* of its own and is written as {}.
stringifyNoReplacer(value) ==
    [k \in DOMAIN value |->
        IF k \in MapProperties THEN [x \in {} |-> x] ELSE value[k]]

\* JSON.stringify(value, replacer) of a SyncPlan, as the object the text denotes:
\* the own enumerable properties, a Map replaced by a plain object.
stringify(value) ==
    [k \in DOMAIN value |->
        IF k \in MapProperties THEN fromEntries(value[k]) ELSE value[k]]

\* `${plan.owner}_${plan.repository}_plan.json`
planFileName(p) == p.owner \o <<"_">> \o p.repository \o <<"_plan.json">>

----------------------------------------------------------------------------
(* The stand-alone build: createSyncPlanForRepo and dump on drawn inputs *)

BuildOwner == <<"o">>
BuildRepo == <<"r">>

Mappings == UNION { [S -> AliasLists] : S \in SUBSET LabelNames }

NoCalls ==
    /\ target = <<>>
    /\ generatedNames = <<>>
    /\ matchResult = <<>>
    /\ calls = <<>>

IdlePipeline ==
    /\ repos = <<>>
    /\ dryRun = FALSE
    /\ pc = "start"
    /\ retrieverCalls = <<>>
    /\ retrieval = <<>>
    /\ repoPromise = <<>>
    /\ plans = <<>>
    /\ requests = <<>>
    /\ actionPromise = <<>>
    /\ writes = {}
    /\ reported = "none"
    /\ exitCode = "none"

InitBuild ==
    /\ desiredLabels \in SeqsUpTo(DesiredPool, MaxDesired)
    /\ mappings \in Mappings
    /\ existingLabels \in { e \in SeqsUpTo(ExistingPool, MaxExisting) : DistinctNames(e) }
    /\ plan = NewSyncPlan(BuildOwner, BuildRepo)
    /\ artifact = <<>>
    /\ phase = "input"
    /\ IdlePipeline
    /\ NoCalls

BuildPlan ==
    /\ phase = "input"
    /\ plan' = createSyncPlanForRepo(mappings, BuildOwner, BuildRepo,
                                     desiredLabels, existingLabels)
    /\ phase' = "built"
    /\ UNCHANGED <<callVars, configVars, existingLabels, artifact, pipeVars>>

DumpPlan ==
    /\ phase = "built"
    /\ artifact' = stringify(plan)
    /\ phase' = "dumped"
    /\ UNCHANGED <<callVars, configVars, existingLabels, plan, pipeVars>>

NextBuild == BuildPlan \/ DumpPlan

SpecBuild == InitBuild /\ [][NextBuild]_vars

----------------------------------------------------------------------------
(* The matcher alone: generateCandidateNames and findMatches on drawn inputs *)

InitMatch ==
    /\ desiredLabels = <<>>
    /\ mappings \in Mappings
    /\ existingLabels \in SeqsUpTo(ExistingPool, MaxExisting)
    /\ plan = NewSyncPlan(BuildOwner, BuildRepo)
    /\ artifact = <<>>
    /\ phase = "input"
    /\ IdlePipeline
    /\ target \in DesiredPool
    /\ generatedNames = <<>>
    /\ matchResult = <<>>
    /\ calls = <<>>

GenerateCandidateNames ==
    /\ phase = "input"
    /\ generatedNames' = generateCandidateNames(mappings, target.name)
    /\ phase' = "named"
    /\ UNCHANGED <<configVars, buildVars, pipeVars, target, matchResult, calls>>

FindMatches ==
    /\ phase = "named"
    /\ matchResult' = findMatches(mappings, target, existingLabels)
    /\ phase' = "matched"
    /\ UNCHANGED <<configVars, buildVars, pipeVars, target, generatedNames, calls>>

NextMatch == GenerateCandidateNames \/ FindMatches

SpecMatch == InitMatch /\ [][NextMatch]_vars

----------------------------------------------------------------------------
(* The plan alone: addLabelToCreate and addLabelToUpdate called in any order *)

InitPlan ==
    /\ desiredLabels = <<>>
    /\ mappings = <<>>
    /\ existingLabels = <<>>
    /\ plan = NewSyncPlan(BuildOwner, BuildRepo)
    /\ artifact = <<>>
    /\ phase = "plan"
    /\ IdlePipeline
    /\ NoCalls

AddLabelToUpdate(existingLabel, update) ==
    /\ phase = "plan"
    /\ Len(calls) < MaxCalls
    /\ plan' = addLabelToUpdate(plan, existingLabel, update)
    /\ calls' = Append(calls, [op |-> "update", name |-> existingLabel.name, label |-> update])
    /\ UNCHANGED <<configVars, existingLabels, artifact, phase, pipeVars,
                   target, generatedNames, matchResult>>

AddLabelToCreate(label) ==
    /\ phase = "plan"
    /\ Len(calls) < MaxCalls
    /\ plan' = addLabelToCreate(plan, label)
    /\ calls' = Append(calls, [op |-> "create", name |-> label.name, label |-> label])
    /\ UNCHANGED <<configVars, existingLabels, artifact, phase, pipeVars,
                   target, generatedNames, matchResult>>

NextPlan ==
    \/ \E existingLabel \in ExistingPool, update \in DesiredPool :
          AddLabelToUpdate(existingLabel, update)
    \/ \E label \in DesiredPool : AddLabelToCreate(label)

SpecPlan == InitPlan /\ [][NextPlan]_vars

----------------------------------------------------------------------------
(* Repository identifiers *)

\* String.prototype.lastIndexOf for a one-character needle: the 0-based index
\* of the last occurrence, -1 when there is none.
lastIndexOf(str, ch) ==
    IF \E i \in 1..Len(str) : str[i] = ch
    THEN (CHOOSE i \in 1..Len(str) :
            str[i] = ch /\ \A j \in (i + 1)..Len(str) : str[j] # ch) - 1
    ELSE -1

Clamp(n, len) == IF n < 0 THEN 0 ELSE IF n > len THEN len ELSE n

\* String.prototype.substring(start, end): both clamped to 0..length and
\* swapped when start > end; 0-based, end exclusive.
substring(str, start, end) ==
    LET a == Clamp(start, Len(str))
        b == Clamp(end, Len(str))
        lo == IF a <= b THEN a ELSE b
        hi == IF a <= b THEN b ELSE a
    IN  [i \in 1..(hi - lo) |-> str[lo + i]]

\* The head of the forEach callback of processRepos.
organizationOf(repo) == substring(repo, 0, lastIndexOf(repo, "/"))

repositoryOf(repo) == substring(repo, lastIndexOf(repo, "/") + 1, Len(repo))

----------------------------------------------------------------------------
(* Promises *)

\* Promise.all over promises in the given states.
PromiseAll(states) ==
    IF \E i \in 1..Len(states) : states[i] = "rejected" THEN "rejected"
    ELSE IF \A i \in 1..Len(states) : states[i] = "fulfilled" THEN "fulfilled"
    ELSE "pending"

OfKind(reqs, kind) == SelectSeq(reqs, LAMBDA r : r.kind = kind)

States(reqs) == [i \in 1..Len(reqs) |-> reqs[i].status]

----------------------------------------------------------------------------
(* Executor: updateGHLabels *)

Undefined == "<undefined>"

\* description ?? undefined
orUndefined(description) == IF description = Null THEN Undefined ELSE description

\* The forEach over plan.labelsToUpdate: one updateLabel request per entry.
updateRequests(p) ==
    [i \in 1..Len(labelsToUpdate(p)) |->
        [ kind |-> "update",
          payload |-> [ owner |-> p.owner,
                        repo |-> p.repository,
                        name |-> labelsToUpdate(p)[i].key,
                        description |-> orUndefined(labelsToUpdate(p)[i].value.description),
                        new_name |-> labelsToUpdate(p)[i].value.name,
                        color |-> labelsToUpdate(p)[i].value.color ],
          status |-> "pending" ]]

\* The forEach over plan.labelsToCreate: one createLabel request per label.
createRequests(p) ==
    [i \in 1..Len(labelsToCreate(p)) |->
        [ kind |-> "create",
          payload |-> [ owner |-> p.owner,
                        repo |-> p.repository,
                        description |-> orUndefined(labelsToCreate(p)[i].description),
                        name |-> labelsToCreate(p)[i].name,
                        color |-> labelsToCreate(p)[i].color ],
          status |-> "pending" ]]

\* Promise.any in the place of Promise.all: fulfilled with the first update.
updatesAny(reqs) ==
    IF \E i \in 1..Len(reqs) : reqs[i].kind = "update" /\ reqs[i].status = "fulfilled"
    THEN "fulfilled"
    ELSE PromiseAll(States(OfKind(reqs, "update")))

\* Promise.all(updates) at the time it is called: over the update requests.
updatesAll(reqs) == PromiseAll(States(OfKind(reqs, "update")))

\* The `creations` array when Promise.all(creations) is called: the callback
\* pushes every createLabel promise to `updates`, so `creations` is empty.
creations(reqs) == <<>>

\* The then-callback of Promise.all(updates): issues the creates and returns
\* Promise.all(creations).  <<requests, state of the returned promise>>
afterUpdates(p, reqs) ==
    LET all == reqs \o createRequests(p)
    IN  <<all, PromiseAll(States(creations(all)))>>

\* updateGHLabels(plan) up to the first wait: the updates are issued, and
\* with none of them Promise.all(updates) is fulfilled at once.
updateGHLabels(p) ==
    LET reqs == updateRequests(p)
    IN  IF updatesAll(reqs) = "fulfilled" THEN afterUpdates(p, reqs) ELSE <<reqs, "pending">>

----------------------------------------------------------------------------
(* processRepos and its call site *)

\* The dry-run switch ignored.
repoActionIgnoringDryRun(dry) == "updateGHLabels"

\* if (options.dryRun) repoAction = dump-and-resolve, else updateGHLabels
repoAction(dry) == IF dry THEN "dump" ELSE "updateGHLabels"

\* The identifiers given on the command line: o_r/q and o/r_q, and or, /r
\* and o/ for the identifiers that are not of the form owner/repository.
RepoIds ==
    { <<"o", "_", "r", "/", "q">>, <<"o", "/", "r", "_", "q">>,
      <<"o", "r">>, <<"/", "r">>, <<"o", "/">> }

RetrievedLists ==
    { << [name |-> "bug", color |-> "000000", description |-> Null],
         [name |-> "defect", color |-> "000000", description |-> Null] >>,
      << [name |-> "issue", color |-> "ededed", description |-> "An issue"] >> }

\* config.json as the pipelines read it.
PipelineConfigs ==
    { [ desiredLabels |-> << [name |-> "bug", color |-> "d73a4a", description |-> Null],
                             [name |-> "defect", color |-> "ffffff", description |-> "Broken"],
                             [name |-> "feature", color |-> "a2eeef", description |-> "New feature"] >>,
        mappings |-> [n \in {"bug", "defect", "feature"} |-> <<"issue">>] ],
      [ desiredLabels |-> << [name |-> "feature", color |-> "a2eeef", description |-> "New feature"] >>,
        mappings |-> [n \in {"feature"} |-> <<"enhancement", "issue">>] ] }

Init ==
    /\ \E c \in PipelineConfigs :
          /\ desiredLabels = c.desiredLabels
          /\ mappings = c.mappings
    /\ existingLabels = <<>>
    /\ plan = NewSyncPlan(BuildOwner, BuildRepo)
    /\ artifact = <<>>
    /\ phase = "pipeline"
    /\ repos \in { r \in SeqsUpTo(RepoIds, MaxRepos) : \A i, j \in 1..Len(r) : r[i] = r[j] => i = j }
    /\ dryRun \in BOOLEAN
    /\ pc = "start"
    /\ retrieverCalls = <<>>
    /\ retrieval = <<>>
    /\ repoPromise = <<>>
    /\ plans = <<>>
    /\ requests = <<>>
    /\ actionPromise = <<>>
    /\ writes = {}
    /\ reported = "none"
    /\ exitCode = "none"
    /\ NoCalls

\* .then(() => console.log("All good! Done!")) on Promise.all(repoPromises)
Report(promises, now) == IF PromiseAll(promises) = "fulfilled" THEN "success" ELSE now

\* processRepos(options._, retriever, repoAction): the retriever is called for
\* every identifier, in order, and Promise.all is taken over the promises.
ProcessRepos ==
    /\ phase = "pipeline"
    /\ pc = "start"
    /\ retrieverCalls' = [i \in 1..Len(repos) |->
                            [owner |-> organizationOf(repos[i]), repo |-> repositoryOf(repos[i])]]
    /\ retrieval' = [i \in 1..Len(repos) |-> "pending"]
    /\ repoPromise' = [i \in 1..Len(repos) |-> "pending"]
    /\ plans' = [i \in 1..Len(repos) |-> <<>>]
    /\ requests' = [i \in 1..Len(repos) |-> <<>>]
    /\ actionPromise' = [i \in 1..Len(repos) |-> "none"]
    /\ reported' = Report(repoPromise', reported)
    /\ pc' = "running"
    /\ UNCHANGED <<callVars, configVars, buildVars, phase, repos, dryRun, writes, exitCode>>

\* .catch((error) => { console.error(error); process.exit(-1); })
ExitOnFailure ==
    /\ reported' = "failure"
    /\ exitCode' = "-1"
    /\ pc' = "exited"

\* The retriever's promise of repository i is fulfilled with `labels`: the
\* then-callback builds the plan and calls the action, without returning its
\* promise.  In a dry run the action writes the file, or writeFileSync throws.
RetrievalFulfills(i, labels, writeOk) ==
    /\ pc = "running"
    /\ retrieval[i] = "pending"
    /\ retrieval' = [retrieval EXCEPT ![i] = "fulfilled"]
    /\ LET syncPlan == createSyncPlanForRepo(mappings, retrieverCalls[i].owner,
                                             retrieverCalls[i].repo, desiredLabels, labels)
       IN  /\ plans' = [plans EXCEPT ![i] = <<syncPlan>>]
           /\ IF repoAction(dryRun) = "dump"
              THEN /\ UNCHANGED requests
                   /\ IF writeOk
                      THEN /\ writes' = writes \cup
                                {[name |-> planFileName(syncPlan),
                                  content |-> stringify(syncPlan), repo |-> i]}
                           /\ actionPromise' = [actionPromise EXCEPT ![i] = "fulfilled"]
                           /\ repoPromise' = [repoPromise EXCEPT ![i] = "fulfilled"]
                           /\ reported' = Report(repoPromise', reported)
                           /\ UNCHANGED <<pc, exitCode>>
                      ELSE /\ repoPromise' = [repoPromise EXCEPT ![i] = "rejected"]
                           /\ ExitOnFailure
                           /\ UNCHANGED <<writes, actionPromise>>
              ELSE /\ writeOk
                   /\ requests' = [requests EXCEPT ![i] = updateGHLabels(syncPlan)[1]]
                   /\ actionPromise' = [actionPromise EXCEPT ![i] = updateGHLabels(syncPlan)[2]]
                   /\ repoPromise' = [repoPromise EXCEPT ![i] = "fulfilled"]
                   /\ reported' = Report(repoPromise', reported)
                   /\ UNCHANGED <<writes, pc, exitCode>>
    /\ UNCHANGED <<callVars, configVars, buildVars, phase, repos, dryRun, retrieverCalls>>

\* A retriever whose rejection is swallowed, .catch(() => []): the plan is
\* built from no labels.
RetrievalRejectsAsEmpty(i) ==
    /\ pc = "running"
    /\ retrieval[i] = "pending"
    /\ retrieval' = [retrieval EXCEPT ![i] = "rejected"]
    /\ plans' = [plans EXCEPT ![i] =
                    <<createSyncPlanForRepo(mappings, retrieverCalls[i].owner,
                                            retrieverCalls[i].repo, desiredLabels, <<>>)>>]
    /\ UNCHANGED <<callVars, configVars, buildVars, phase, repos, dryRun, retrieverCalls,
                   repoPromise, requests, actionPromise, writes, reported, pc, exitCode>>

\* The retriever's promise of repository i is rejected: Promise.all rejects
\* and the catch handler ends the process.
RetrievalRejects(i) ==
    /\ pc = "running"
    /\ retrieval[i] = "pending"
    /\ retrieval' = [retrieval EXCEPT ![i] = "rejected"]
    /\ repoPromise' = [repoPromise EXCEPT ![i] = "rejected"]
    /\ ExitOnFailure
    /\ UNCHANGED <<callVars, configVars, buildVars, phase, repos, dryRun, retrieverCalls,
                   plans, requests, actionPromise, writes>>

\* Request k of repository i is fulfilled.  The last update to be fulfilled
\* runs the then-callback of Promise.all(updates).
RequestFulfills(i, k) ==
    /\ pc = "running"
    /\ requests[i][k].status = "pending"
    /\ LET reqs == [requests[i] EXCEPT ![k].status = "fulfilled"]
           fire == /\ requests[i][k].kind = "update"
                   /\ actionPromise[i] = "pending"
                   /\ updatesAll(reqs) = "fulfilled"
       IN  /\ requests' = [requests EXCEPT ![i] =
                              IF fire THEN afterUpdates(plans[i][1], reqs)[1] ELSE reqs]
           /\ actionPromise' = [actionPromise EXCEPT ![i] =
                              IF fire THEN afterUpdates(plans[i][1], reqs)[2] ELSE @]
    /\ UNCHANGED <<callVars, configVars, buildVars, phase, repos, dryRun, retrieverCalls,
                   retrieval, repoPromise, plans, writes, reported, pc, exitCode>>

\* Promise.allSettled(updates) in the place of Promise.all: the creates are
\* issued once a rejected update is the last update to settle.
RequestRejectsThenCreates(i, k, crash) ==
    /\ pc = "running"
    /\ requests[i][k].status = "pending"
    /\ ~crash
    /\ LET reqs == [requests[i] EXCEPT ![k].status = "rejected"]
           fire == /\ requests[i][k].kind = "update"
                   /\ \A l \in 1..Len(reqs) : reqs[l].status # "pending"
                   /\ OfKind(reqs, "create") = <<>>
       IN  requests' = [requests EXCEPT ![i] =
                           IF fire THEN reqs \o createRequests(plans[i][1]) ELSE reqs]
    /\ UNCHANGED <<callVars, configVars, buildVars, phase, repos, dryRun, retrieverCalls,
                   retrieval, repoPromise, plans, actionPromise, writes, reported,
                   pc, exitCode>>

\* Request k of repository i is rejected.  The first rejected update rejects
\* the promise updateGHLabels returned, which nobody handles; a rejected
\* create has no handler either.  An unhandled rejection ends the process
\* (crash) or only warns, depending on the runtime.
RequestRejects(i, k, crash) ==
    /\ pc = "running"
    /\ requests[i][k].status = "pending"
    /\ requests' = [requests EXCEPT ![i][k].status = "rejected"]
    /\ LET unhandled == \/ requests[i][k].kind = "create"
                        \/ actionPromise[i] = "pending"
       IN  /\ actionPromise' = [actionPromise EXCEPT ![i] =
                                  IF requests[i][k].kind = "update" /\ @ = "pending"
                                  THEN "rejected" ELSE @]
           /\ IF unhandled /\ crash
              THEN pc' = "exited" /\ exitCode' = "1"
              ELSE ~crash /\ UNCHANGED <<pc, exitCode>>
    /\ UNCHANGED <<callVars, configVars, buildVars, phase, repos, dryRun, retrieverCalls,
                   retrieval, repoPromise, plans, writes, reported>>

Next ==
    \/ ProcessRepos
    \/ \E i \in 1..Len(retrieval), labels \in RetrievedLists, writeOk \in BOOLEAN :
          RetrievalFulfills(i, labels, writeOk)
    \/ \E i \in 1..Len(retrieval) : RetrievalRejects(i)
    \/ \E i \in 1..Len(requests) : \E k \in 1..Len(requests[i]) : RequestFulfills(i, k)
    \/ \E i \in 1..Len(requests) : \E k \in 1..Len(requests[i]), crash \in BOOLEAN :
          RequestRejects(i, k, crash)

Spec == Init /\ [][Next]_vars

----------------------------------------------------------------------------
(* Claims about the plan builder and the serializer (SpecBuild) *)

Built == phase \in {"built", "dumped"}

\* The positions of `labels` whose name is a candidate name of d: d's own
\* name or one of its aliases.
MatchesOf(d, labels) ==
    { j \in 1..Len(labels) :
        \/ labels[j].name = d.name
        \/ /\ d.name \in DOMAIN mappings
           /\ \E a \in 1..Len(mappings[d.name]) : mappings[d.name][a] = labels[j].name }

Min(S) == CHOOSE x \in S : \A y \in S : x <= y

Max(S) == CHOOSE x \in S : \A y \in S : y <= x

\* The name of the first existing label, in existing-labels order, matching d.
TargetOf(d) == existingLabels[Min(MatchesOf(d, existingLabels))].name

Matched == { i \in 1..Len(desiredLabels) : MatchesOf(desiredLabels[i], existingLabels) # {} }

Unmatched == (1..Len(desiredLabels)) \ Matched

\* The elements of s at the positions in S, in order.
RECURSIVE Pick(_, _, _)
Pick(s, S, i) ==
    IF i > Len(s) THEN <<>>
    ELSE (IF i \in S THEN <<s[i]>> ELSE <<>>) \o Pick(s, S, i + 1)

TimesCreated(d) == Cardinality({ k \in 1..Len(labelsToCreate(plan)) : labelsToCreate(plan)[k] = d })

TimesUpdated(d) == Cardinality({ k \in 1..Len(labelsToUpdate(plan)) : labelsToUpdate(plan)[k].value = d })

\* C1: after createSyncPlanForRepo every desired label appears exactly once in
\* the plan, in labelsToCreate or as one value of labelsToUpdate (stated for
\* desired lists of pairwise distinct labels, where counting is unambiguous).
C1_EachDesiredExactlyOnce ==
    (Built /\ DistinctNames(desiredLabels)) =>
        \A i \in 1..Len(desiredLabels) :
            TimesCreated(desiredLabels[i]) + TimesUpdated(desiredLabels[i]) = 1

\* C2: the desired labels are processed in list order; a desired label with a
\* matching existing label is recorded as an update keyed by its first match
\* in existing-labels order and is not created; one with no match is appended
\* to labelsToCreate and has no update entry.  In the finished plan: the
\* creates are the unmatched desired labels in list order; the update keys
\* are the first matches, in the order they were first targeted; the value
\* under a key is the last desired label targeting it; and an update entry
\* holding d is keyed by d's first match only.
C2_FirstMatchInExistingOrder ==
    Built =>
        LET cr == labelsToCreate(plan)
            up == labelsToUpdate(plan)
            Targeting(key) == { i \in Matched : TargetOf(desiredLabels[i]) = key }
        IN  /\ cr = Pick(desiredLabels, Unmatched, 1)
            /\ { up[k].key : k \in 1..Len(up) } = { TargetOf(desiredLabels[i]) : i \in Matched }
            /\ \A k \in 1..Len(up) : up[k].value = desiredLabels[Max(Targeting(up[k].key))]
            /\ \A k, l \in 1..Len(up) :
                  k < l => Min(Targeting(up[k].key)) < Min(Targeting(up[l].key))
            /\ \A i \in Matched : \A k \in 1..Len(cr) : cr[k] # desiredLabels[i]
            /\ \A i \in Unmatched : \A k \in 1..Len(up) : up[k].value # desiredLabels[i]
            /\ \A i \in Matched : \A k \in 1..Len(up) :
                  up[k].value = desiredLabels[i] => up[k].key = TargetOf(desiredLabels[i])

\* A desired label with two matches whose first match in existing-labels
\* order is an alias, not its own name, has been planned.
C2_Witness ==
    /\ Built
    /\ \E i \in Matched :
          /\ Cardinality(MatchesOf(desiredLabels[i], existingLabels)) >= 2
          /\ TargetOf(desiredLabels[i]) # desiredLabels[i].name
    /\ Unmatched # {}

\* C10 as stated: the artifact has exactly the fields owner, repository,
\* labelsToCreate and labelsToUpdate.
C10_ArtifactFieldsAsStated ==
    phase = "dumped" =>
        DOMAIN artifact = {"owner", "repository", "labelsToCreate", "labelsToUpdate"}

\* C10, amended: the artifact has exactly the fields owner, repository,
\* _labelsToCreate and _labelsToUpdate; _labelsToCreate is the plan's create
\* list in order and _labelsToUpdate is an object with one key per existing
\* label name of the plan, holding the desired label recorded for it.
C10_ArtifactFields ==
    phase = "dumped" =>
        LET up == labelsToUpdate(plan)
        IN  /\ DOMAIN artifact = {"owner", "repository", "_labelsToCreate", "_labelsToUpdate"}
            /\ artifact.owner = plan.owner
            /\ artifact.repository = plan.repository
            /\ artifact._labelsToCreate = labelsToCreate(plan)
            /\ DOMAIN artifact._labelsToUpdate = { up[k].key : k \in 1..Len(up) }
            /\ \A k \in 1..Len(up) : artifact._labelsToUpdate[up[k].key] = up[k].value

\* A plan with a create and an update, one of them without description, has
\* been dumped.
C10_Witness ==
    /\ phase = "dumped"
    /\ Len(artifact._labelsToCreate) > 0
    /\ DOMAIN artifact._labelsToUpdate # {}
    /\ \E k \in 1..Len(artifact._labelsToCreate) :
          artifact._labelsToCreate[k].description = Null

----------------------------------------------------------------------------
(* Claims about the pipelines and the executor (Spec) *)

Pipelines == 1..Len(retrieval)

\* An identifier with no "/" or with an empty owner or repository segment.
Malformed(id) ==
    \/ \A c \in 1..Len(id) : id[c] # "/"
    \/ id[1] = "/"
    \/ id[Len(id)] = "/"

\* Every identifier of the invocation is of the form owner/repository.
WellFormedRepos == \A i \in 1..Len(repos) : ~Malformed(repos[i])

Pending(reqs) == \E k \in 1..Len(reqs) : reqs[k].status = "pending"

Rejected(reqs) == \E k \in 1..Len(reqs) : reqs[k].status = "rejected"

\* C3: within one repository's plan every update request is submitted and
\* settled before any create request is submitted: wherever a create request
\* has been issued, all the plan's updates have been issued, come before it
\* in the order of submission, and none is pending.
C3_UpdatesBeforeCreates ==
    \A i \in Pipelines :
        \A k \in 1..Len(requests[i]) :
            requests[i][k].kind = "create" =>
                /\ Len(OfKind(requests[i], "update")) = Len(labelsToUpdate(plans[i][1]))
                /\ \A j \in 1..Len(requests[i]) :
                      requests[i][j].kind = "update" =>
                          j < k /\ requests[i][j].status # "pending"

\* A plan with two updates and a create has had its create submitted.
C3_Witness ==
    \E i \in Pipelines :
        /\ Len(OfKind(requests[i], "update")) >= 2
        /\ Len(OfKind(requests[i], "create")) >= 1

\* Repository i's pipeline has run to completion: its retrieval has settled
\* and, when it succeeded, the plan is built and the action is finished.
PipelineSettled(i) ==
    \/ retrieval[i] = "rejected"
    \/ /\ retrieval[i] = "fulfilled"
       /\ plans[i] # <<>>
       /\ actionPromise[i] \in {"fulfilled", "rejected"} \/ repoPromise[i] = "rejected"
       /\ ~Pending(requests[i])

\* C4: when one repository's retrieval rejects, every other repository's
\* pipeline still runs to completion: the process does not end before.
C4_FailureIsolation ==
    \A j \in Pipelines :
        (WellFormedRepos /\ pc = "exited" /\ retrieval[j] = "rejected") =>
            \A i \in Pipelines \ {j} : PipelineSettled(i)

\* C5: the overall operation completes (the success message or the failure
\* report) only after every repository's pipeline has settled, its update
\* and create requests included.
C5_CompletesAfterEveryPipeline ==
    (WellFormedRepos /\ reported # "none") => \A i \in Pipelines : PipelineSettled(i)

\* Some repository's pipeline has failed: its retrieval, one of its requests
\* or its file write.
SomePipelineFailed ==
    \E i \in Pipelines :
        \/ retrieval[i] = "rejected"
        \/ repoPromise[i] = "rejected"
        \/ Rejected(requests[i])

\* C6: the overall operation reports success only if every repository's
\* pipeline succeeded; with any failure it never reports success.
C6_SuccessOnlyIfAllSucceeded ==
    (WellFormedRepos /\ SomePipelineFailed) => reported # "success"

\* C7: the promise updateGHLabels returns is rejected whenever a request it
\* issued is rejected, an update or a create.
C7_ExecutorRejectsOnAnyFailure ==
    \A i \in Pipelines :
        (WellFormedRepos /\ Rejected(requests[i])) => actionPromise[i] = "rejected"

\* C8: the retriever is never called for a malformed identifier.
C8_MalformedNeverRetrieved ==
    \A i \in 1..Len(retrieverCalls) : ~Malformed(repos[i])

\* C9: in a dry run no update and no create request is ever issued, and the
\* only thing a repository's action does is write that repository's plan
\* file, once.
C9_DryRunIssuesNoRequest ==
    dryRun =>
        /\ \A i \in Pipelines : requests[i] = <<>> /\ actionPromise[i] # "pending"
        /\ \A w \in writes :
              /\ retrieval[w.repo] = "fulfilled"
              /\ w.name = retrieverCalls[w.repo].owner \o <<"_">> \o
                          retrieverCalls[w.repo].repo \o <<"_plan.json">>
        /\ \A v, w \in writes : v.repo = w.repo => v = w

\* A dry run has written the file of a plan that holds updates and a create.
C9_Witness ==
    /\ dryRun
    /\ \E w \in writes :
          /\ Len(labelsToUpdate(plans[w.repo][1])) >= 2
          /\ Len(labelsToCreate(plans[w.repo][1])) >= 1

----------------------------------------------------------------------------
(* Claims about the size of the plan and what it targets (SpecBuild) *)

PlanSize == Len(labelsToCreate(plan)) + Len(labelsToUpdate(plan))

\* Two desired labels have a matching existing label in common.
ShareAMatch ==
    \E i, j \in 1..Len(desiredLabels) :
        /\ i # j
        /\ MatchesOf(desiredLabels[i], existingLabels)
             \cap MatchesOf(desiredLabels[j], existingLabels) # {}

\* Two desired labels have the same first match: they target the same
\* existing label.
ShareATarget ==
    \E i, j \in Matched :
        i # j /\ TargetOf(desiredLabels[i]) = TargetOf(desiredLabels[j])

\* C11 as stated: |labelsToCreate| + |labelsToUpdate| = |D| if and only if
\* no two desired labels match the same existing label.
C11_SizeIffNoSharedMatch ==
    Built => (PlanSize = Len(desiredLabels) <=> ~ShareAMatch)

\* C11, amended: |labelsToCreate| + |labelsToUpdate| = |D| if and only if
\* no two desired labels have the same first matching existing label.
C11_SizeIffNoSharedTarget ==
    Built => (PlanSize = Len(desiredLabels) <=> ~ShareATarget)

\* Two desired labels of different names targeted the same existing label
\* and the plan is smaller than the desired list.
C11_Witness ==
    Built /\ DistinctNames(desiredLabels) /\ ShareATarget /\ PlanSize < Len(desiredLabels)

\* C14: with existing labels equal to the desired labels the plan has no
\* labelsToCreate entry and an update entry for every desired label.
C14_NoOpUpdatesKept ==
    (Built /\ existingLabels = desiredLabels) =>
        /\ labelsToCreate(plan) = <<>>
        /\ \A i \in 1..Len(desiredLabels) : TimesUpdated(desiredLabels[i]) >= 1

\* The names of the existing labels.
ExistingNames == { existingLabels[j].name : j \in 1..Len(existingLabels) }

\* The aliases configured for a name.
AliasesOf(name) ==
    IF name \in DOMAIN mappings
    THEN { mappings[name][a] : a \in 1..Len(mappings[name]) }
    ELSE {}

\* C19: no label of labelsToCreate has the name of an existing label: a
\* create is planned only for a desired label whose own name and every alias
\* are absent from the existing labels.
C19_CreatesNeverCollide ==
    Built =>
        \A k \in 1..Len(labelsToCreate(plan)) :
            /\ labelsToCreate(plan)[k].name \notin ExistingNames
            /\ AliasesOf(labelsToCreate(plan)[k].name) \cap ExistingNames = {}

\* A label with an alias other than its own name has been planned for
\* creation next to existing labels of other names.
C19_Witness ==
    /\ Built
    /\ existingLabels # <<>>
    /\ \E k \in 1..Len(labelsToCreate(plan)) :
          AliasesOf(labelsToCreate(plan)[k].name) \ {labelsToCreate(plan)[k].name} # {}

\* The position in the existing labels of the label of that name.
PositionOf(name) == CHOOSE j \in 1..Len(existingLabels) : existingLabels[j].name = name

\* C20 as stated: every update entry (existingName -> desired) has
\* desired.name equal to existingName or absent from the existing names.
C20_NoRenameOntoExisting ==
    Built =>
        \A k \in 1..Len(labelsToUpdate(plan)) :
            \/ labelsToUpdate(plan)[k].value.name = labelsToUpdate(plan)[k].key
            \/ labelsToUpdate(plan)[k].value.name \notin ExistingNames

\* C20, amended: every update entry (existingName -> desired) has
\* desired.name equal to existingName, or absent from the existing names, or
\* held by an existing label that comes after the one named existingName.
C20_RenameOntoLaterOnly ==
    Built =>
        \A k \in 1..Len(labelsToUpdate(plan)) :
            \/ labelsToUpdate(plan)[k].value.name = labelsToUpdate(plan)[k].key
            \/ labelsToUpdate(plan)[k].value.name \notin ExistingNames
            \/ PositionOf(labelsToUpdate(plan)[k].value.name)
                 > PositionOf(labelsToUpdate(plan)[k].key)

\* An update renames an alias match onto the name of a later existing label.
C20_Witness ==
    /\ Built
    /\ \E k \in 1..Len(labelsToUpdate(plan)) :
          /\ labelsToUpdate(plan)[k].value.name # labelsToUpdate(plan)[k].key
          /\ labelsToUpdate(plan)[k].value.name \in ExistingNames

----------------------------------------------------------------------------
(* Claims about the matcher and the candidate names (SpecMatch) *)

\* The positions of `labels` whose name is one of `names`.
NamedBy(names, labels) ==
    { j \in 1..Len(labels) : \E k \in 1..Len(names) : names[k] = labels[j].name }

\* C12: findMatches returns exactly the elements of candidates whose name is
\* one of the candidate names generated for target.name, in the order of
\* candidates.
C12_FindMatchesFiltersInOrder ==
    phase = "matched" =>
        matchResult = Pick(existingLabels, NamedBy(generatedNames, existingLabels), 1)

\* findMatches has left the first label out and returned the second, which
\* it matched through an alias.
C12_Witness ==
    /\ phase = "matched"
    /\ Len(existingLabels) = 2
    /\ matchResult = <<existingLabels[2]>>
    /\ matchResult[1].name # target.name
    /\ existingLabels[1] # existingLabels[2]

\* C13: generateCandidateNames(name) is [name] followed by the aliases of
\* name in their configured order when name has a non-empty alias list, and
\* [name] when name is unmapped or mapped to an empty list; its first element
\* is always name.
C13_CandidateNames ==
    phase \in {"named", "matched"} =>
        LET aliases == IF target.name \in DOMAIN mappings THEN mappings[target.name] ELSE <<>>
        IN  /\ Len(generatedNames) = 1 + Len(aliases)
            /\ generatedNames[1] = target.name
            /\ \A a \in 1..Len(aliases) : generatedNames[a + 1] = aliases[a]

\* The candidate names of a name with two aliases have been generated.
C13_Witness ==
    /\ phase = "named"
    /\ Len(generatedNames) = 3
    /\ generatedNames[2] # generatedNames[3]

----------------------------------------------------------------------------
(* Claims about the plan's operations (SpecPlan) *)

\* The calls of addLabelToUpdate made with that existing-label name.
UpdateCalls(name) ==
    { k \in 1..Len(calls) : calls[k].op = "update" /\ calls[k].name = name }

CreateCalls == { k \in 1..Len(calls) : calls[k].op = "create" }

\* The labels of the calls at the positions in S, in order.
RECURSIVE LabelsOf(_, _)
LabelsOf(S, i) ==
    IF i > Len(calls) THEN <<>>
    ELSE (IF i \in S THEN <<calls[i].label>> ELSE <<>>) \o LabelsOf(S, i + 1)

----------------------------------------------------------------------------
(* Claims about plan files and about failures (Spec) *)

\* C15: in a dry run two distinct (owner, repository) pairs never write to
\* the same file name.
C15_DistinctPairsDistinctFiles ==
    (dryRun /\ WellFormedRepos) =>
        \A v, w \in writes :
            retrieverCalls[v.repo] # retrieverCalls[w.repo] => v.name # w.name

\* An update request of that repository has been rejected.
UpdateRejected(i) ==
    \E k \in 1..Len(requests[i]) :
        requests[i][k].kind = "update" /\ requests[i][k].status = "rejected"

\* C17: once an update request of a repository is rejected no create request
\* is issued for that repository, and no request is issued a second time:
\* the requests issued are pairwise different, at most one per plan entry.
C17_RejectedUpdateAborts ==
    \A i \in Pipelines :
        /\ UpdateRejected(i) => OfKind(requests[i], "create") = <<>>
        /\ \A k, l \in 1..Len(requests[i]) :
              (/\ requests[i][k].kind = requests[i][l].kind
               /\ requests[i][k].payload = requests[i][l].payload) => k = l
        /\ requests[i] # <<>> =>
              /\ Len(OfKind(requests[i], "update")) = Len(labelsToUpdate(plans[i][1]))
              /\ Len(OfKind(requests[i], "create")) <= Len(labelsToCreate(plans[i][1]))

\* One update of a plan that holds a create was rejected, the plan's other
\* update was fulfilled, and the process goes on.
C17_Witness ==
    /\ pc = "running"
    /\ \E i \in Pipelines :
          /\ UpdateRejected(i)
          /\ \E k \in 1..Len(requests[i]) : requests[i][k].status = "fulfilled"
          /\ \A k \in 1..Len(requests[i]) : requests[i][k].status # "pending"
          /\ labelsToCreate(plans[i][1]) # <<>>

\* C18: when the retrieval of a repository's labels fails the repository's
\* pipeline is rejected, no plan is built for it, the action is never
\* invoked, and it has no update request, create request or file write.
C18_RetrievalFailureStopsPipeline ==
    \A i \in Pipelines :
        retrieval[i] = "rejected" =>
            /\ repoPromise[i] = "rejected"
            /\ plans[i] = <<>>
            /\ actionPromise[i] = "none"
            /\ requests[i] = <<>>
            /\ \A w \in writes : w.repo # i

\* The retrieval of one repository failed after another repository's
\* requests had been issued.
C18_Witness ==
    \E i, j \in Pipelines :
        /\ retrieval[i] = "rejected"
        /\ retrieval[j] = "fulfilled"
        /\ requests[j] # <<>>

====
